---- MODULE Spec2Model ----
(***************************************************************************)
(* Model of the forward shaded render passes of amethyst_renderer:        *)
(*   DrawShaded<V>        (pass/shaded/interleaved.rs)                     *)
(*   DrawShadedSeparate   (pass/shaded/separate.rs)                        *)
(* One frame is one call of Pass::apply.  apply is modelled step by step: *)
(* Setup (camera, globals, lights) and then one step per iteration of the *)
(* drawable loop.  The commands sent to the effect and the encoder during *)
(* the current frame are kept in the history variable log.                *)
(*                                                                         *)
(* Option<T> is modelled as a sequence of length at most one.             *)
(***************************************************************************)
EXTENDS Integers, Sequences, FiniteSets, TLC

\* ----------------------------------------------------------------- bounds
MaxEntities == 3
MaxFrames == 2
MaxFewLights == 2
MaxExcessLights == 1

\* ------------------------------------------------------ program constants
VertexArgsCap == 1
FragmentArgsCap == 1
PointLightsCap == 128
DirectionalLightsCap == 16
JointTransformsCap == 100

None == << >>
Some(x) == << x >>
IsSome(o) == Len(o) = 1
Unwrap(o) == o[1]

Min(a, b) == IF a <= b THEN a ELSE b

Entities == 1 .. MaxEntities

\* ------------------------------------------------------------- matrices
\* A Matrix4 is modelled as the affine map x |-> s * x + t (uniform scale s,
\* translation column t).  s = 0 is the singular matrix.
Vec3(a, b, c) == << a, b, c >>
Matrix(s, t) == [s |-> s, t |-> t]
One == Matrix(1, Vec3(0, 0, 0))
Neg(v) == [i \in 1 .. 3 |-> 0 - v[i]]
Scale(k, v) == [i \in 1 .. 3 |-> k * v[i]]

\* mutant of invert: a singular matrix yields the identity instead of None
invertOrIdentity(m) ==
  IF m.s = 0 THEN Some(One)
  ELSE Some(Matrix(m.s, Neg(Scale(m.s, m.t))))

\* SquareMatrix::invert : Option<Matrix4>
invert(m) ==
  IF m.s = 0 THEN None
  ELSE Some(Matrix(m.s, Neg(Scale(m.s, m.t))))

\* [trans.0[3][0], trans.0[3][1], trans.0[3][2]]
Translation(m) == m.t

\* ------------------------------------------------------ vertex attributes
Position == "Position"
Normal == "Normal"
TexCoord == "TexCoord"
JointIds == "JointIds"
JointWeights == "JointWeights"
PosNormTex == "PosNormTex"

\* Mesh::buffer(attributes) : Option<&Buffer>
MeshBuffer(m, attr) ==
  IF attr \in m.attrs THEN Some([mesh |-> m.id, attr |-> attr]) ELSE None

\* AssetStorage<Mesh>::get(handle)
MeshGet(sc, h) == sc.mesh_storage[h]

\* AssetStorage<Texture>::get(handle)
TexGet(sc, h) == IF h \in sc.tex_storage THEN Some([tex |-> h]) ELSE None

TextureView(t) == [view |-> t.tex]
TextureSampler(t) == [sampler |-> t.tex]

\* Option::or_else
OrElse(a, b) == IF IsSome(a) THEN a ELSE b

\* mutant of ResolveTexture: no fallback to the default
ResolveTextureOwnOnly(sc, own, dflt) == TexGet(sc, own)

\* mutant of ResolveTexture: the default is tried before the entity's texture
ResolveTextureDefaultFirst(sc, own, dflt) == OrElse(TexGet(sc, dflt), TexGet(sc, own))

\* tex_storage.get(&material.X).or_else(|| tex_storage.get(&material_defaults.0.X))
ResolveTexture(sc, own, dflt) == OrElse(TexGet(sc, own), TexGet(sc, dflt))

\* ------------------------------------------------------------ the scene
\* Texture handles: one albedo and one emission handle per material; the
\* owners in DefaultOwners are the handles MaterialDefaults may hold.
DefaultOwners == {0, 0 - 1}
TexHandle(slot, owner) == [slot |-> slot, owner |-> owner]
Material(e) == [albedo |-> TexHandle("albedo", e), emission |-> TexHandle("emission", e)]

\* Transform components: a regular (invertible) one and a singular one.
RegularTransform(e) == Matrix(1, Vec3(e, e + 1, e + 2))
SingularTransform(e) == Matrix(0, Vec3(e, e + 1, e + 2))

\* Camera component: its projection matrix.
Camera(e) == [proj |-> Matrix(1, Vec3(0, 0, 10 + e))]

\* JointTransforms component: joint.matrices
JointMatrices(e) == [k \in 1 .. (1 + (e % 2)) |-> [joint |-> k, of |-> e]]

\* Light components
PointLight(i) == [kind |-> "Point", id |-> i]
DirectionalLight(i) == [kind |-> "Directional", id |-> i]

\* Meshes: the set of attribute layouts for which the mesh holds a buffer.
AllSeparate == {Position, Normal, TexCoord, JointIds, JointWeights}
MeshAsset(e, attrs) == [id |-> e, attrs |-> attrs]

\* Mesh profiles of an entity: whether it carries mesh/material/transform,
\* whether the mesh asset is loaded, which buffers the asset holds and
\* whether the entity carries a JointTransforms component.
Profile(joined, loaded, attrs, joints) ==
  [joined |-> joined, loaded |-> loaded, attrs |-> attrs, joints |-> joints]
PFull == Profile(TRUE, TRUE, AllSeparate \cup {PosNormTex}, TRUE)
PFullNoJointComp == Profile(TRUE, TRUE, AllSeparate \cup {PosNormTex}, FALSE)
PNoNormal == Profile(TRUE, TRUE, {Position, TexCoord, JointIds, JointWeights}, TRUE)
PNoPosition == Profile(TRUE, TRUE, {Normal, TexCoord}, FALSE)
PNoJointBufs == Profile(TRUE, TRUE, {Position, Normal, TexCoord, PosNormTex}, TRUE)
PNoWeights == Profile(TRUE, TRUE, {Position, Normal, TexCoord, JointIds, PosNormTex}, FALSE)
PUnloaded == Profile(TRUE, FALSE, {}, TRUE)
PAbsent == Profile(FALSE, FALSE, {}, FALSE)
MeshProfiles ==
  {PFull, PFullNoJointComp, PNoNormal, PNoPosition, PNoJointBufs, PNoWeights,
   PUnloaded, PAbsent}

\* The profiles of the entities in the families that vary something else:
\* the second entity is skipped (variant 1: missing normal buffer, variant 2:
\* mesh not loaded), every other entity is complete.
StdProfiles(k) ==
  [e \in Entities |-> IF e = 2 THEN (IF k = 1 THEN PNoNormal ELSE PUnloaded) ELSE PFull]

\* Two point lights and one directional light.
StdLights == << PointLight(1), DirectionalLight(2), PointLight(3) >>

\* nP point lights and nD directional lights in three storage orders.
LightsOf(nP, nD, pat) ==
  [i \in 1 .. (nP + nD) |->
     IF pat = "PointFirst"
       THEN (IF i <= nP THEN PointLight(i) ELSE DirectionalLight(i))
     ELSE IF pat = "DirectionalFirst"
       THEN (IF i <= nD THEN DirectionalLight(i) ELSE PointLight(i))
     ELSE (IF i <= 2 * Min(nP, nD)
             THEN (IF i % 2 = 1 THEN PointLight(i) ELSE DirectionalLight(i))
             ELSE (IF nP > nD THEN PointLight(i) ELSE DirectionalLight(i)))]
LightPatterns == {"PointFirst", "DirectionalFirst", "Alternate"}
PointCounts == (0 .. MaxFewLights) \cup ((PointLightsCap - 1) .. (PointLightsCap + MaxExcessLights))
DirectionalCounts ==
  (0 .. MaxFewLights) \cup ((DirectionalLightsCap - 1) .. (DirectionalLightsCap + MaxExcessLights))

\* The data of one frame (PassData::Data).  prof gives the mesh side of each
\* entity; cams the entities with a Camera component; xf the Transform of
\* each entity that is not given by its profile; loaded the loaded textures.
Scene(prof, active, cams, xf, loaded, dflt, lights) ==
  [active |-> active,
   camera |-> [e \in Entities |-> IF e \in cams THEN Some(Camera(e)) ELSE None],
   ambient |-> Vec3(1, 1, 1),
   mesh_storage |->
     [e \in Entities |->
        IF prof[e].loaded THEN Some(MeshAsset(e, prof[e].attrs)) ELSE None],
   tex_storage |-> loaded,
   material_defaults |-> dflt,
   mesh |-> [e \in Entities |-> IF prof[e].joined THEN Some(e) ELSE None],
   material |-> [e \in Entities |-> IF prof[e].joined THEN Some(Material(e)) ELSE None],
   global |-> xf,
   light |-> lights,
   joints |-> [e \in Entities |-> IF prof[e].joints THEN Some(JointMatrices(e)) ELSE None]]

StdDefaults == Material(0)
DefaultTextures == {StdDefaults.albedo, StdDefaults.emission}
\* every joined entity has a regular transform
StdTransforms(prof) ==
  [e \in Entities |-> IF prof[e].joined THEN Some(RegularTransform(e)) ELSE None]

\* ------------------------------------------------------------ the effect
\* One command sent to the effect or the encoder while entity e is being
\* processed (e = 0 during Setup).
Ev(op, name, arg, e) == [op |-> op, name |-> name, arg |-> arg, entity |-> e]

\* Effect::clear
EffectClear == [vertex_bufs |-> << >>, textures |-> << >>, samplers |-> << >>]

\* Effect::update_buffer: the contents of a constant buffer of capacity cap
\* after the slice data was uploaded to it.
UpdateBuffer(data, cap) == SubSeq(data, 1, Min(Len(data), cap))

\* Effect::update_constant_buffer
UpdateConstantBuffer(val) == << val >>

\* capacity declared for constant buffer name
Capacity(pso, name) ==
  LET i == CHOOSE i \in 1 .. Len(pso.const_bufs) : pso.const_bufs[i].name = name
  IN pso.const_bufs[i].cap

\* ------------------------------------------------------------- compile
ConstBuf(name, cap) == [name |-> name, cap |-> cap]

CommonConstBufs ==
  << ConstBuf("VertexArgs", VertexArgsCap), ConstBuf("FragmentArgs", FragmentArgsCap),
     ConstBuf("PointLights", PointLightsCap),
     ConstBuf("DirectionalLights", DirectionalLightsCap) >>

\* DrawShaded::compile
DrawShadedCompile ==
  [shader |-> << "VERT_SRC", "FRAG_SRC" >>,
   vertex_bufs |-> << PosNormTex >>,
   const_bufs |-> CommonConstBufs,
   globals |-> << "ambient_color", "camera_position" >>,
   textures |-> << "emission", "albedo" >>,
   outputs |-> << [name |-> "out_color", depth |-> "LessEqualWrite"] >>]

\* mutant of SeparateAttributes: the normal buffer is not required
SeparateAttributesNoNormal(skin) ==
  IF skin THEN << Position, TexCoord, JointIds, JointWeights >>
  ELSE << Position, TexCoord >>

\* the vertex buffers DrawShadedSeparate declares, and later requires
SeparateAttributes(skin) ==
  IF skin THEN << Position, Normal, TexCoord, JointIds, JointWeights >>
  ELSE << Position, Normal, TexCoord >>

\* mutant of DrawShadedSeparateCompile: JointTransforms is declared whatever
\* the skinning flag
DrawShadedSeparateCompileAlwaysJoints(skin) ==
  [shader |-> IF skin THEN << "VERT_SKIN_SRC", "FRAG_SRC" >> ELSE << "VERT_SRC", "FRAG_SRC" >>,
   vertex_bufs |-> SeparateAttributes(skin),
   const_bufs |-> << ConstBuf("JointTransforms", JointTransformsCap) >> \o CommonConstBufs,
   globals |-> << "ambient_color", "camera_position" >>,
   textures |-> << "emission", "albedo" >>,
   outputs |-> << [name |-> "out_color", depth |-> "LessEqualWrite"] >>]

\* DrawShadedSeparate::compile
DrawShadedSeparateCompile(skin) ==
  [shader |-> IF skin THEN << "VERT_SKIN_SRC", "FRAG_SRC" >> ELSE << "VERT_SRC", "FRAG_SRC" >>,
   vertex_bufs |-> SeparateAttributes(skin),
   const_bufs |->
     IF skin THEN << ConstBuf("JointTransforms", JointTransformsCap) >> \o CommonConstBufs
     ELSE CommonConstBufs,
   globals |-> << "ambient_color", "camera_position" >>,
   textures |-> << "emission", "albedo" >>,
   outputs |-> << [name |-> "out_color", depth |-> "LessEqualWrite"] >>]

compile(ps, skin) ==
  IF ps = "interleaved" THEN DrawShadedCompile ELSE DrawShadedSeparateCompile(skin)

\* --------------------------------------------------------------- Setup
\* (&camera, &global).join().next()
FirstCamera(sc) ==
  LET both == {e \in Entities : IsSome(sc.camera[e]) /\ IsSome(sc.global[e])}
  IN IF both = {} THEN None
     ELSE LET e == CHOOSE e \in both : \A f \in both : e <= f
          IN Some([cam |-> Unwrap(sc.camera[e]), transform |-> Unwrap(sc.global[e])])

\* active.and_then(|a| camera.get(a.entity) zip global.get(a.entity))
ActiveCameraOf(sc) ==
  IF IsSome(sc.active)
    THEN LET a == Unwrap(sc.active)
         IN IF IsSome(sc.camera[a]) /\ IsSome(sc.global[a])
              THEN Some([cam |-> Unwrap(sc.camera[a]), transform |-> Unwrap(sc.global[a])])
              ELSE None
    ELSE None

\* mutant of SelectCamera: the active camera reference is ignored
SelectCameraFirstOnly(sc) == FirstCamera(sc)

\* let camera = active.and_then(..).or_else(..)
SelectCamera(sc) == OrElse(ActiveCameraOf(sc), FirstCamera(sc))

\* camera.map(|(_, trans)| translation).unwrap_or([0.0; 3])
CameraPosition(cam) == IF IsSome(cam) THEN Translation(Unwrap(cam).transform) ELSE Vec3(0, 0, 0)

IsPoint(l) == l.kind = "Point"
IsDirectional(l) == l.kind = "Directional"
PointLightPod(l) == [point |-> l.id]
DirectionalLightPod(l) == [directional |-> l.id]

\* mutant of PackPointLights: the variant tag is not tested
PackPointLightsAnyKind(lights) == [i \in 1 .. Len(lights) |-> PointLightPod(lights[i])]

\* light.join().filter_map(Light::Point => PointLightPod).collect()
PackPointLights(lights) ==
  LET sel == SelectSeq(lights, IsPoint) IN [i \in 1 .. Len(sel) |-> PointLightPod(sel[i])]

\* light.join().filter_map(Light::Directional => DirectionalLightPod).collect()
PackDirectionalLights(lights) ==
  LET sel == SelectSeq(lights, IsDirectional)
  IN [i \in 1 .. Len(sel) |-> DirectionalLightPod(sel[i])]

\* FragmentArgs { point_light_count, directional_light_count }
FragmentArgsOf(point_lights, directional_lights) ==
  [point_light_count |-> Len(point_lights),
   directional_light_count |-> Len(directional_lights)]

\* the globals after Setup
SetupGlobals(sc) ==
  [ambient_color |-> Some(sc.ambient),
   camera_position |-> Some(CameraPosition(SelectCamera(sc)))]

\* the constant buffers after the three uploads of Setup
SetupConstBufs(cbufs, pso, sc) ==
  LET point_lights == PackPointLights(sc.light)
      directional_lights == PackDirectionalLights(sc.light)
      fragment_args == FragmentArgsOf(point_lights, directional_lights)
  IN [cbufs EXCEPT
        !["FragmentArgs"] = UpdateConstantBuffer(fragment_args),
        !["PointLights"] = UpdateBuffer(point_lights, Capacity(pso, "PointLights")),
        !["DirectionalLights"] =
           UpdateBuffer(directional_lights, Capacity(pso, "DirectionalLights"))]

\* the commands of Setup
SetupLog(sc) ==
  LET cam == SelectCamera(sc)
      point_lights == PackPointLights(sc.light)
      directional_lights == PackDirectionalLights(sc.light)
      fragment_args == FragmentArgsOf(point_lights, directional_lights)
  IN << Ev("update_global", "ambient_color", sc.ambient, 0),
        Ev("update_global", "camera_position", CameraPosition(cam), 0),
        Ev("update_constant_buffer", "FragmentArgs", fragment_args, 0),
        Ev("update_buffer", "PointLights", point_lights, 0),
        Ev("update_buffer", "DirectionalLights", directional_lights, 0) >>

\* (&mesh, &material, &global).join(): the entities of the drawable loop
Drawables(sc) ==
  SelectSeq([e \in Entities |-> e],
            LAMBDA e : IsSome(sc.mesh[e]) /\ IsSome(sc.material[e]) /\ IsSome(sc.global[e]))

\* ----------------------------------------------------------- PerEntity
\* The per-iteration state: the effect's per-draw bindings (effect.data),
\* its constant buffers and the commands issued so far in the frame.
St(data, cbufs, lg) == [data |-> data, const_bufs |-> cbufs, log |-> lg]
Out(outcome, st) == [outcome |-> outcome, st |-> st]

\* for attr in [...] { match mesh.buffer(attr) { Some(vbuf) => push, None => continue 'drawable } }
RECURSIVE PushVertexBufs(_, _, _, _, _)
PushVertexBufs(st, m, attrs, i, e) ==
  IF i > Len(attrs) THEN [ok |-> TRUE, st |-> st]
  ELSE LET b == MeshBuffer(m, attrs[i])
       IN IF IsSome(b)
            THEN PushVertexBufs(
                   [st EXCEPT !.data.vertex_bufs = Append(@, Unwrap(b)),
                              !.log = Append(@, Ev("push_vertex_buf", attrs[i], Unwrap(b), e))],
                   m, attrs, i + 1, e)
            ELSE [ok |-> FALSE, st |-> st]

\* mutant of VertexArgsOf: the fallback without camera drops the model matrix
VertexArgsOfFallbackNoModel(cam, model) ==
  IF IsSome(cam)
    THEN LET inv == invert(Unwrap(cam).transform)
         IN IF IsSome(inv)
              THEN Some([proj |-> Unwrap(cam).cam.proj, view |-> Unwrap(inv), model |-> model])
              ELSE None
    ELSE Some([proj |-> One, view |-> One, model |-> One])

\* camera.map(|(cam, transform)| VertexArgs{cam.proj, transform.invert().unwrap(), model})
\*       .unwrap_or_else(|| VertexArgs{one, one, model})
\* None when the unwrap panics.
VertexArgsOf(cam, model) ==
  IF IsSome(cam)
    THEN LET inv == invert(Unwrap(cam).transform)
         IN IF IsSome(inv)
              THEN Some([proj |-> Unwrap(cam).cam.proj, view |-> Unwrap(inv), model |-> model])
              ELSE None
    ELSE Some([proj |-> One, view |-> One, model |-> model])

\* effect.update_constant_buffer("VertexArgs", &vertex_args, encoder)
UploadVertexArgs(st, va, e) ==
  [st EXCEPT !.const_bufs["VertexArgs"] = UpdateConstantBuffer(va),
             !.log = Append(@, Ev("update_constant_buffer", "VertexArgs", va, e))]

\* mutant of UploadJoints: the upload is forgotten
UploadJointsNever(st, pso, skin, sc, e) == st

\* if self.skinning { if let Some(joint) = joints.get(entity) { update_buffer("JointTransforms") } }
UploadJoints(st, pso, skin, sc, e) ==
  IF skin /\ IsSome(sc.joints[e])
    THEN LET mats == Unwrap(sc.joints[e])
         IN [st EXCEPT !.const_bufs["JointTransforms"] =
                          UpdateBuffer(mats, Capacity(pso, "JointTransforms")),
                       !.log = Append(@, Ev("update_buffer", "JointTransforms", mats, e))]
    ELSE st

\* mutant of PushTextures: albedo is pushed before emission
PushTexturesAlbedoFirst(st, albedo, emission, e) ==
  [st EXCEPT
     !.data.textures = @ \o << TextureView(albedo), TextureView(emission) >>,
     !.data.samplers = @ \o << TextureSampler(albedo), TextureSampler(emission) >>,
     !.log = @ \o << Ev("push_texture", "albedo", TextureView(albedo), e),
                     Ev("push_sampler", "albedo", TextureSampler(albedo), e),
                     Ev("push_texture", "emission", TextureView(emission), e),
                     Ev("push_sampler", "emission", TextureSampler(emission), e) >>]

\* textures.push(emission.view()); samplers.push(emission.sampler());
\* textures.push(albedo.view());   samplers.push(albedo.sampler());
PushTextures(st, albedo, emission, e) ==
  [st EXCEPT
     !.data.textures = @ \o << TextureView(emission), TextureView(albedo) >>,
     !.data.samplers = @ \o << TextureSampler(emission), TextureSampler(albedo) >>,
     !.log = @ \o << Ev("push_texture", "emission", TextureView(emission), e),
                     Ev("push_sampler", "emission", TextureSampler(emission), e),
                     Ev("push_texture", "albedo", TextureView(albedo), e),
                     Ev("push_sampler", "albedo", TextureSampler(albedo), e) >>]

\* effect.draw(mesh.slice(), encoder); effect.clear();
\* The draw command records what the effect holds when it is issued.
DrawAndClear(st, m, glb, e) ==
  [st EXCEPT
     !.data = EffectClear,
     !.log = @ \o << Ev("draw", "slice",
                        [slice |-> m.id, data |-> st.data,
                         const_bufs |-> st.const_bufs, globals |-> glb], e),
                     Ev("clear", "data", e, e) >>]

\* albedo and emission resolution, texture binding, draw and clear: the tail
\* shared by both passes once VertexArgs is uploaded (interleaved pushes its
\* single vertex buffer just before the draw).
ResolveBindDraw(st, sc, glb, m, e, vbuf) ==
  LET mat == Unwrap(sc.material[e])
      albedo == ResolveTexture(sc, mat.albedo, sc.material_defaults.albedo)
      emission == ResolveTexture(sc, mat.emission, sc.material_defaults.emission)
  IN IF ~IsSome(albedo) \/ ~IsSome(emission) THEN Out("panic", st)
     ELSE LET st1 == PushTextures(st, Unwrap(albedo), Unwrap(emission), e)
              st2 == IF IsSome(vbuf)
                       THEN [st1 EXCEPT
                               !.data.vertex_bufs = Append(@, Unwrap(vbuf)),
                               !.log = Append(@, Ev("push_vertex_buf", PosNormTex,
                                                    Unwrap(vbuf), e))]
                       ELSE st1
          IN Out("draw", DrawAndClear(st2, m, glb, e))

\* One iteration of the loop of DrawShaded::apply for entity e.
DrawShadedIteration(st, pso, sc, cam, glb, e) ==
  LET mo == MeshGet(sc, Unwrap(sc.mesh[e]))
  IN IF ~IsSome(mo) THEN Out("skip_unloaded", st)
     ELSE LET m == Unwrap(mo)
              vbuf == MeshBuffer(m, PosNormTex)
          IN IF ~IsSome(vbuf) THEN Out("skip_attribute", st)
             ELSE LET va == VertexArgsOf(cam, Unwrap(sc.global[e]))
                  IN IF ~IsSome(va) THEN Out("panic", st)
                     ELSE ResolveBindDraw(UploadVertexArgs(st, Unwrap(va), e),
                                          sc, glb, m, e, vbuf)

\* One iteration of the loop of DrawShadedSeparate::apply for entity e.
DrawShadedSeparateIteration(st, pso, skin, sc, cam, glb, e) ==
  LET mo == MeshGet(sc, Unwrap(sc.mesh[e]))
  IN IF ~IsSome(mo) THEN Out("skip_unloaded", st)
     ELSE LET m == Unwrap(mo)
              pushed == PushVertexBufs(st, m, SeparateAttributes(skin), 1, e)
          IN IF ~pushed.ok THEN Out("skip_attribute", pushed.st)
             ELSE LET va == VertexArgsOf(cam, Unwrap(sc.global[e]))
                  IN IF ~IsSome(va) THEN Out("panic", pushed.st)
                     ELSE ResolveBindDraw(
                            UploadJoints(UploadVertexArgs(pushed.st, Unwrap(va), e),
                                         pso, skin, sc, e),
                            sc, glb, m, e, None)

\* mutant of Iteration: the skip of a mesh that is not loaded clears the effect
IterationClearsOnUnloaded(ps, skin, st, pso, sc, cam, glb, e) ==
  IF ~IsSome(MeshGet(sc, Unwrap(sc.mesh[e])))
    THEN Out("skip_unloaded",
             [st EXCEPT !.data = EffectClear, !.log = Append(@, Ev("clear", "data", e, e))])
  ELSE IF ps = "interleaved" THEN DrawShadedIteration(st, pso, sc, cam, glb, e)
  ELSE DrawShadedSeparateIteration(st, pso, skin, sc, cam, glb, e)

\* mutant of Iteration: a mesh that is not loaded is unwrapped
IterationUnwrapsMesh(ps, skin, st, pso, sc, cam, glb, e) ==
  IF ~IsSome(MeshGet(sc, Unwrap(sc.mesh[e]))) THEN Out("panic", st)
  ELSE IF ps = "interleaved" THEN DrawShadedIteration(st, pso, sc, cam, glb, e)
  ELSE DrawShadedSeparateIteration(st, pso, skin, sc, cam, glb, e)

\* mutant of Iteration: VertexArgs is uploaded as soon as the mesh is found
\* loaded, before the attribute check
IterationUploadsBeforeCheck(ps, skin, st, pso, sc, cam, glb, e) ==
  LET st0 == IF IsSome(MeshGet(sc, Unwrap(sc.mesh[e])))
               THEN UploadVertexArgs(st, [proj |-> One, view |-> One,
                                          model |-> Unwrap(sc.global[e])], e)
               ELSE st
  IN IF ps = "interleaved" THEN DrawShadedIteration(st0, pso, sc, cam, glb, e)
     ELSE DrawShadedSeparateIteration(st0, pso, skin, sc, cam, glb, e)

Iteration(ps, skin, st, pso, sc, cam, glb, e) ==
  IF ps = "interleaved" THEN DrawShadedIteration(st, pso, sc, cam, glb, e)
  ELSE DrawShadedSeparateIteration(st, pso, skin, sc, cam, glb, e)

\* the drawable loop from position k on: "returned" or "panicked"
RECURSIVE RunLoop(_, _, _, _, _, _, _, _)
RunLoop(ps, skin, st, pso, sc, cam, glb, k) ==
  IF k > Len(Drawables(sc)) THEN Out("returned", st)
  ELSE LET o == Iteration(ps, skin, st, pso, sc, cam, glb, Drawables(sc)[k])
       IN IF o.outcome = "panic" THEN Out("panicked", o.st)
          ELSE RunLoop(ps, skin, o.st, pso, sc, cam, glb, k + 1)

\* the first call of Pass::apply of a freshly compiled pass on the data sc
apply(ps, skin, sc) ==
  LET pso == compile(ps, skin)
      empty == [n \in {pso.const_bufs[i].name : i \in 1 .. Len(pso.const_bufs)} |-> << >>]
  IN RunLoop(ps, skin,
             St(EffectClear, SetupConstBufs(empty, pso, sc), SetupLog(sc)),
             pso, sc, SelectCamera(sc), SetupGlobals(sc), 1)

\* ------------------------------------------------------------- the state
VARIABLES
  pass,        \* which pass: "interleaved" (DrawShaded) or "separate" (DrawShadedSeparate)
  skinning,    \* DrawShadedSeparate.skinning
  scene,       \* the PassData of the frames
  pso,         \* the layout declared by compile
  globals,     \* the effect's global uniforms
  const_bufs,  \* the effect's constant buffers
  data,        \* effect.data: vertex_bufs, textures, samplers
  pc,          \* "new", "ready", "loop", "returned", "panicked"
  idx,         \* position of apply in the drawable join
  camera,      \* the local camera of apply
  frame,       \* number of calls of apply so far
  log          \* commands issued in the current frame

vars == << pass, skinning, scene, pso, globals, const_bufs, data, pc, idx, camera, frame, log >>

\* DrawShaded::new, DrawShadedSeparate::new, with_vertex_skinning
Layouts == {<< "interleaved", FALSE >>, << "separate", FALSE >>, << "separate", TRUE >>}

\* the state after construction of the pass, for the frame data sc
Constructed(layout, sc) ==
  /\ pass = layout[1]
  /\ skinning = layout[2]
  /\ scene = sc
  /\ pso = [shader |-> << >>, vertex_bufs |-> << >>, const_bufs |-> << >>,
            globals |-> << >>, textures |-> << >>, outputs |-> << >>]
  /\ globals = [ambient_color |-> None, camera_position |-> None]
  /\ const_bufs = << >>
  /\ data = EffectClear
  /\ pc = "new"
  /\ idx = 0
  /\ camera = None
  /\ frame = 0
  /\ log = << >>

\* Scenes that vary the meshes: any profile for every entity, no camera, the
\* first entity's own textures loaded, the defaults loaded or not.
InitMesh ==
  \E layout \in Layouts, prof \in [Entities -> MeshProfiles], dl \in BOOLEAN :
    Constructed(layout,
      Scene(prof, None, {}, StdTransforms(prof),
            (IF dl THEN DefaultTextures ELSE {}) \cup {Material(1).albedo, Material(1).emission},
            StdDefaults, StdLights))

\* Scenes that vary the cameras, the transforms and the active camera.
InitCamera ==
  \E layout \in Layouts, k \in 1 .. 2, cams \in SUBSET Entities,
     xf \in [Entities -> {0, 1, 2}], act \in 0 .. MaxEntities :
    Constructed(layout,
      Scene(StdProfiles(k), IF act = 0 THEN None ELSE Some(act), cams,
            [e \in Entities |->
               IF xf[e] = 0 THEN None
               ELSE IF xf[e] = 1 THEN Some(RegularTransform(e))
               ELSE Some(SingularTransform(e))],
            DefaultTextures, StdDefaults, StdLights))

\* Scenes that vary which textures are loaded and which albedo is the default.
InitMaterial ==
  \E layout \in Layouts, k \in 1 .. 2, o \in DefaultOwners,
     own \in SUBSET ({Material(e).albedo : e \in Entities}
                       \cup {Material(e).emission : e \in Entities}),
     da \in BOOLEAN, de \in BOOLEAN :
    LET dflt == [albedo |-> TexHandle("albedo", o), emission |-> TexHandle("emission", 0)]
    IN Constructed(layout,
         Scene(StdProfiles(k), None, {}, StdTransforms(StdProfiles(k)),
               own \cup (IF da THEN {dflt.albedo} ELSE {})
                   \cup (IF de THEN {dflt.emission} ELSE {}),
               dflt, StdLights))

\* Scenes that vary the lights, below, at and above the declared capacities.
InitLights ==
  \E layout \in Layouts, k \in 1 .. 2, nP \in PointCounts, nD \in DirectionalCounts,
     pat \in LightPatterns, dl \in BOOLEAN :
    Constructed(layout,
      Scene(StdProfiles(k), None, {}, StdTransforms(StdProfiles(k)),
            IF dl THEN DefaultTextures ELSE {}, StdDefaults, LightsOf(nP, nD, pat)))

\* Scenes for the runs to completion: a complete, an incomplete or an
\* unloaded mesh for every entity, the defaults loaded or not, and no camera,
\* an invertible or a singular camera on the first entity.
InitFair ==
  \E layout \in Layouts, prof \in [Entities -> {PFull, PNoNormal, PUnloaded}],
     c \in 0 .. 2, dl \in BOOLEAN :
    Constructed(layout,
      Scene(prof, None, IF c = 0 THEN {} ELSE {1},
            [e \in Entities |->
               IF e = 1 /\ c = 2 THEN Some(SingularTransform(e))
               ELSE Some(RegularTransform(e))],
            IF dl THEN DefaultTextures ELSE {}, StdDefaults, StdLights))

Init == InitMesh \/ InitCamera \/ InitMaterial \/ InitLights

\* ------------------------------------------------------------- actions
\* Pass::compile
Compile ==
  /\ pc = "new"
  /\ pso' = compile(pass, skinning)
  /\ const_bufs' = [n \in {pso'.const_bufs[i].name : i \in 1 .. Len(pso'.const_bufs)} |-> << >>]
  /\ pc' = "ready"
  /\ UNCHANGED << pass, skinning, scene, globals, data, idx, camera, frame, log >>

\* Pass::apply up to the drawable loop: camera, globals, lights.
Setup ==
  /\ pc \in {"ready", "returned"}
  /\ frame < MaxFrames
  /\ camera' = SelectCamera(scene)
  /\ globals' = SetupGlobals(scene)
  /\ const_bufs' = SetupConstBufs(const_bufs, pso, scene)
  /\ log' = SetupLog(scene)
  /\ frame' = frame + 1
  /\ idx' = 1
  /\ pc' = "loop"
  /\ UNCHANGED << pass, skinning, scene, pso, data >>

\* the entity the loop is at, and the result of its iteration
InLoop == pc = "loop" /\ idx <= Len(Drawables(scene))
Current == Drawables(scene)[idx]
Step ==
  Iteration(pass, skinning, St(data, const_bufs, log), pso, scene, camera, globals, Current)

\* the effect after the iteration, and the loop moving on
Advance(nextpc) ==
  /\ data' = Step.st.data
  /\ const_bufs' = Step.st.const_bufs
  /\ log' = Step.st.log
  /\ idx' = idx + 1
  /\ pc' = nextpc
  /\ UNCHANGED << pass, skinning, scene, pso, globals, camera, frame >>

\* mesh_storage.get(mesh) is None: continue
SkipUnloaded ==
  /\ InLoop
  /\ Step.outcome = "skip_unloaded"
  /\ Advance("loop")

\* a required buffer is missing: continue
SkipMissingAttribute ==
  /\ InLoop
  /\ Step.outcome = "skip_attribute"
  /\ Advance("loop")

\* the iteration runs to effect.draw and effect.clear
DrawEntity ==
  /\ InLoop
  /\ Step.outcome = "draw"
  /\ Advance("loop")

\* an unwrap of the iteration panics
Panic ==
  /\ InLoop
  /\ Step.outcome = "panic"
  /\ Advance("panicked")

\* the loop is exhausted: apply returns
Return ==
  /\ pc = "loop"
  /\ idx > Len(Drawables(scene))
  /\ pc' = "returned"
  /\ camera' = None
  /\ UNCHANGED << pass, skinning, scene, pso, globals, const_bufs, data, idx, frame, log >>

Next ==
  \/ Compile
  \/ Setup
  \/ SkipUnloaded
  \/ SkipMissingAttribute
  \/ DrawEntity
  \/ Panic
  \/ Return

Spec == Init /\ [][Next]_vars
SpecMesh == InitMesh /\ [][Next]_vars
SpecCamera == InitCamera /\ [][Next]_vars
SpecMaterial == InitMaterial /\ [][Next]_vars
SpecLights == InitLights /\ [][Next]_vars
\* apply is synchronous and single-threaded: a call that has started runs
\* until it returns or panics, so a step that is possible is eventually taken.
SpecFair == InitFair /\ [][Next]_vars /\ WF_vars(Next)

\* ================================================================ claims
\* the current frame has passed Setup
InFrame == pc \in {"loop", "returned", "panicked"}
DrawIdx == {i \in 1 .. Len(log) : log[i].op = "draw"}
DrawsOf(e) == {i \in DrawIdx : log[i].entity = e}
\* the argument of the Setup command on the global or buffer name
SetupArg(name) ==
  log[CHOOSE i \in 1 .. Len(log) : log[i].entity = 0 /\ log[i].name = name].arg

\* entity e has mesh, material and transform
Joined(e) == IsSome(scene.mesh[e]) /\ IsSome(scene.material[e]) /\ IsSome(scene.global[e])
\* the vertex buffers of the active layout, in order: the interleaved buffer,
\* or position, normal, texcoord followed by joint ids and joint weights when
\* skinning is enabled
LayoutOrder ==
  IF pass = "interleaved" THEN << PosNormTex >>
  ELSE << Position, Normal, TexCoord >> \o
       (IF skinning THEN << JointIds, JointWeights >> ELSE << >>)
Required == {LayoutOrder[i] : i \in 1 .. Len(LayoutOrder)}
MeshLoaded(e) == IsSome(scene.mesh_storage[Unwrap(scene.mesh[e])])
MeshAttrs(e) == Unwrap(scene.mesh_storage[Unwrap(scene.mesh[e])]).attrs
Eligible(e) == Joined(e) /\ MeshLoaded(e) /\ Required \subseteq MeshAttrs(e)
LacksRequired(e) == Joined(e) /\ MeshLoaded(e) /\ ~(Required \subseteq MeshAttrs(e))
DrawCountMatches ==
  /\ \A e \in Entities : Cardinality(DrawsOf(e)) = (IF Eligible(e) THEN 1 ELSE 0)
  /\ Cardinality(DrawIdx) = Cardinality({e \in Entities : Eligible(e)})

\* C1 as stated: when a frame of either pass has ended, every entity whose
\* mesh lacks a required buffer has produced zero draw calls, every entity
\* with mesh, material, transform and a loaded mesh with all required buffers
\* exactly one, and the number of draw calls is the number of such entities.
C1_DrawsEqualEligible == pc \in {"returned", "panicked"} => DrawCountMatches

\* C1 amended: the count holds in every frame in which apply returns; in
\* every frame, aborted or not, an entity that is not eligible has no draw
\* call and an eligible one has at most one.
C1_DrawsEqualEligibleOnReturn ==
  /\ pc = "returned" => DrawCountMatches
  /\ InFrame =>
       \A e \in Entities : Cardinality(DrawsOf(e)) <= (IF Eligible(e) THEN 1 ELSE 0)

\* three drawable entities, exactly one lacking a required buffer, two draws
C1_Witness ==
  /\ pc = "returned"
  /\ \A e \in Entities : Joined(e) /\ MeshLoaded(e)
  /\ Cardinality({e \in Entities : LacksRequired(e)}) = 1
  /\ Cardinality(DrawIdx) = MaxEntities - 1

\* the buffers of entity e's own mesh in the declared order
OwnBuffers(e) ==
  [i \in 1 .. Len(LayoutOrder) |-> [mesh |-> Unwrap(scene.mesh[e]), attr |-> LayoutOrder[i]]]

\* C2: at every draw call of DrawShadedSeparate::apply the bound vertex
\* buffers are exactly the drawn entity's own buffers in the declared order
\* (3 of them, 5 with skinning), none of them of another entity's mesh.
C2_BoundBuffersAreOwn ==
  pass = "separate" =>
    \A i \in DrawIdx : log[i].arg.data.vertex_bufs = OwnBuffers(log[i].entity)

\* C3: the per-draw bindings are empty whenever the processing of an entity
\* begins, when apply returns and when a frame starts.
C3_BindingsEmptyBetweenEntities ==
  pc \in {"ready", "loop", "returned"} => data = EffectClear

NumPoint == Cardinality({i \in 1 .. Len(scene.light) : scene.light[i].kind = "Point"})
NumDirectional ==
  Cardinality({i \in 1 .. Len(scene.light) : scene.light[i].kind = "Directional"})

\* C4: with more point (directional) lights than the capacity, the uploaded
\* sequence is truncated to the capacity and FragmentArgs reports the
\* capacity, 128 (16), as the count.
C4_OverflowReportsCapacity ==
  InFrame =>
    /\ NumPoint > PointLightsCap =>
         /\ Len(const_bufs["PointLights"]) = PointLightsCap
         /\ SetupArg("FragmentArgs").point_light_count = PointLightsCap
    /\ NumDirectional > DirectionalLightsCap =>
         /\ Len(const_bufs["DirectionalLights"]) = DirectionalLightsCap
         /\ SetupArg("FragmentArgs").directional_light_count = DirectionalLightsCap

\* C5: with P <= 128 point lights and D <= 16 directional lights FragmentArgs
\* reports P and D, the PointLights upload has P records, the
\* DirectionalLights upload D, and every light is packed into exactly one
\* record, of the sequence of its variant.
C5_CountsWithinCapacity ==
  (InFrame /\ NumPoint <= PointLightsCap /\ NumDirectional <= DirectionalLightsCap) =>
    LET pl == SetupArg("PointLights")
        dl == SetupArg("DirectionalLights")
    IN /\ SetupArg("FragmentArgs") =
            [point_light_count |-> NumPoint, directional_light_count |-> NumDirectional]
       /\ Len(pl) = NumPoint
       /\ Len(dl) = NumDirectional
       /\ \A i \in 1 .. Len(scene.light) :
            LET l == scene.light[i]
            IN IF l.kind = "Point"
                 THEN /\ Cardinality({j \in 1 .. Len(pl) : pl[j] = [point |-> l.id]}) = 1
                      /\ \A j \in 1 .. Len(dl) : dl[j].directional # l.id
                 ELSE /\ Cardinality({j \in 1 .. Len(dl) : dl[j] = [directional |-> l.id]}) = 1
                      /\ \A j \in 1 .. Len(pl) : pl[j].point # l.id

\* both kinds at capacity, stored alternately
C5_Witness ==
  /\ InFrame
  /\ NumPoint = PointLightsCap
  /\ NumDirectional = DirectionalLightsCap
  /\ scene.light[1].kind = "Point"
  /\ scene.light[2].kind = "Directional"
  /\ SetupArg("FragmentArgs").point_light_count = PointLightsCap

\* composition of two matrices: (a o b)(x) = a(b(x))
Compose(a, b) == [s |-> a.s * b.s, t |-> [i \in 1 .. 3 |-> a.s * b.t[i] + a.t[i]]]
Identity == [s |-> 1, t |-> << 0, 0, 0 >>]
HasCameraAndTransform(e) == IsSome(scene.camera[e]) /\ IsSome(scene.global[e])
CameraEntities == {e \in Entities : HasCameraAndTransform(e)}
ActiveResolves == IsSome(scene.active) /\ HasCameraAndTransform(Unwrap(scene.active))
\* the entity whose camera the selection rule names (when there is one)
SelectedEntity ==
  IF ActiveResolves THEN Unwrap(scene.active)
  ELSE CHOOSE e \in CameraEntities : \A f \in CameraEntities : e <= f
VertexArgsIdx ==
  {i \in 1 .. Len(log) : log[i].op = "update_constant_buffer" /\ log[i].name = "VertexArgs"}
\* every draw is preceded, in its entity's processing, by a VertexArgs upload
DrawHasVertexArgs ==
  \A i \in DrawIdx : \E j \in VertexArgsIdx : j < i /\ log[j].entity = log[i].entity

\* C6: the camera and transform of the active-camera entity are used for every
\* draw of the frame when that entity has both, even if other entities with
\* camera and transform come earlier; otherwise those of the first entity in
\* iteration order that has both.
C6_CameraSelection ==
  (InFrame /\ CameraEntities # {}) =>
    LET c == SelectedEntity
    IN /\ pc = "loop" =>
            camera = << [cam |-> Unwrap(scene.camera[c]), transform |-> Unwrap(scene.global[c])] >>
       /\ DrawHasVertexArgs
       /\ \A i \in VertexArgsIdx :
            /\ log[i].arg.proj = Unwrap(scene.camera[c]).proj
            /\ Compose(log[i].arg.view, Unwrap(scene.global[c])) = Identity

\* the active camera is used although an earlier entity has camera and transform
C6_Witness ==
  /\ pc = "returned"
  /\ ActiveResolves
  /\ \E e \in CameraEntities : e < Unwrap(scene.active)
  /\ Cardinality(DrawIdx) >= 2

\* C7: when no entity has both camera and transform the frame is not an
\* error, camera_position is (0,0,0) and every VertexArgs has identity view and
\* projection and the drawn entity's model matrix; when a camera is selected
\* camera_position is the translation of its transform.
C7_NoCameraFallback ==
  InFrame =>
    /\ CameraEntities = {} =>
         /\ pc # "panicked"
         /\ SetupArg("camera_position") = << 0, 0, 0 >>
         /\ DrawHasVertexArgs
         /\ \A i \in VertexArgsIdx :
              log[i].arg = [proj |-> Identity, view |-> Identity,
                            model |-> Unwrap(scene.global[log[i].entity])]
    /\ CameraEntities # {} =>
         SetupArg("camera_position") = Unwrap(scene.global[SelectedEntity]).t

\* a frame with a dangling active reference and no camera that drew twice
C7_Witness ==
  /\ pc = "returned"
  /\ CameraEntities = {}
  /\ IsSome(scene.active)
  /\ Cardinality(DrawIdx) >= 2

\* the slot of texture name in the declared layout
TextureSlot(name) == CHOOSE k \in 1 .. Len(pso.textures) : pso.textures[k] = name
\* the handle the fallback rule names for an own handle and a default handle
Fallback(own, dflt) == IF own \in scene.tex_storage THEN own ELSE dflt

\* C8: at each draw the bound albedo is the entity's own albedo if it is
\* loaded, else the scene default albedo, and likewise, independently, for
\* emission.
C8_MaterialFallback ==
  InFrame =>
    \A i \in DrawIdx :
      LET mat == Unwrap(scene.material[log[i].entity])
          d == log[i].arg.data
          alb == Fallback(mat.albedo, scene.material_defaults.albedo)
          emi == Fallback(mat.emission, scene.material_defaults.emission)
      IN /\ d.textures[TextureSlot("albedo")] = [view |-> alb]
         /\ d.samplers[TextureSlot("albedo")] = [sampler |-> alb]
         /\ d.textures[TextureSlot("emission")] = [view |-> emi]
         /\ d.samplers[TextureSlot("emission")] = [sampler |-> emi]

\* an entity with its own emission but without its own albedo is drawn with
\* the other default albedo
C8_Witness ==
  /\ InFrame
  /\ scene.material_defaults.albedo.owner # 0
  /\ \E i \in DrawIdx :
       LET mat == Unwrap(scene.material[log[i].entity])
       IN /\ mat.albedo \notin scene.tex_storage
          /\ mat.emission \in scene.tex_storage
          /\ log[i].arg.data.textures[TextureSlot("albedo")] =
               [view |-> scene.material_defaults.albedo]

\* C9: a DrawShadedSeparate pass without skinning never declares, requires,
\* binds or uploads joint-id buffers, joint-weight buffers or JointTransforms;
\* its entities are drawn with exactly their position, normal, texcoord
\* buffers and none is skipped for lacking joint buffers.
C9_NoSkinningNoJoints ==
  (pass = "separate" /\ ~skinning) =>
    /\ \A k \in 1 .. Len(pso.vertex_bufs) : pso.vertex_bufs[k] \notin {JointIds, JointWeights}
    /\ \A k \in 1 .. Len(pso.const_bufs) : pso.const_bufs[k].name # "JointTransforms"
    /\ \A i \in 1 .. Len(log) : log[i].name \notin {"JointTransforms", JointIds, JointWeights}
    /\ \A i \in DrawIdx :
         log[i].arg.data.vertex_bufs =
           [k \in 1 .. 3 |-> [mesh |-> Unwrap(scene.mesh[log[i].entity]),
                              attr |-> << Position, Normal, TexCoord >>[k]]]
    /\ pc = "returned" =>
         \A e \in Entities :
           (Joined(e) /\ MeshLoaded(e) /\ {Position, Normal, TexCoord} \subseteq MeshAttrs(e))
             => Cardinality(DrawsOf(e)) = 1

\* C10: with skinning enabled an entity is drawn only if its mesh has joint-id
\* and joint-weight buffers, they are bound after its position, normal and
\* texcoord buffers, and the JointTransforms block was uploaded from the same
\* entity's matrices earlier in that entity's processing.
C10_SkinnedDrawUsesOwnJoints ==
  (pass = "separate" /\ skinning) =>
    \A i \in DrawIdx :
      LET e == log[i].entity
          vb == log[i].arg.data.vertex_bufs
      IN /\ {JointIds, JointWeights} \subseteq MeshAttrs(e)
         /\ Len(vb) >= 5
         /\ SubSeq(vb, Len(vb) - 4, Len(vb)) =
              [k \in 1 .. 5 |->
                 [mesh |-> Unwrap(scene.mesh[e]),
                  attr |-> << Position, Normal, TexCoord, JointIds, JointWeights >>[k]]]
         /\ IsSome(scene.joints[e])
         /\ \E j \in 1 .. (i - 1) :
              /\ log[j].op = "update_buffer"
              /\ log[j].name = "JointTransforms"
              /\ log[j].entity = e
              /\ log[j].arg = Unwrap(scene.joints[e])

JointUploadsOf(e) ==
  {j \in 1 .. Len(log) :
     log[j].op = "update_buffer" /\ log[j].name = "JointTransforms" /\ log[j].entity = e}

\* C10 amended: with skinning enabled an entity is drawn only if its mesh has
\* joint-id and joint-weight buffers, and they are bound after its position,
\* normal and texcoord buffers; if the entity has a JointTransforms component
\* the block was uploaded from its matrices earlier in its processing, and if
\* it has none it is drawn all the same, without any JointTransforms upload.
C10_SkinnedDrawUploadsOwnJointsIfPresent ==
  (pass = "separate" /\ skinning) =>
    \A i \in DrawIdx :
      LET e == log[i].entity
          vb == log[i].arg.data.vertex_bufs
      IN /\ {JointIds, JointWeights} \subseteq MeshAttrs(e)
         /\ Len(vb) >= 5
         /\ SubSeq(vb, Len(vb) - 4, Len(vb)) =
              [k \in 1 .. 5 |->
                 [mesh |-> Unwrap(scene.mesh[e]),
                  attr |-> << Position, Normal, TexCoord, JointIds, JointWeights >>[k]]]
         /\ IF IsSome(scene.joints[e])
              THEN \E j \in JointUploadsOf(e) : j < i /\ log[j].arg = Unwrap(scene.joints[e])
              ELSE JointUploadsOf(e) = {}

\* a skinned frame that drew an entity with joint transforms after another
\* one with different matrices, and one entity without the component
C10_Witness ==
  /\ pc = "returned"
  /\ pass = "separate"
  /\ skinning
  /\ \E i, j \in DrawIdx :
       /\ i < j
       /\ IsSome(scene.joints[log[i].entity])
       /\ IsSome(scene.joints[log[j].entity])
       /\ scene.joints[log[i].entity] # scene.joints[log[j].entity]
  /\ \E i \in DrawIdx : ~IsSome(scene.joints[log[i].entity])

\* the entities whose iteration has run, in the current frame
Visited(e) == \E k \in 1 .. (idx - 1) : k <= Len(Drawables(scene)) /\ Drawables(scene)[k] = e
\* the entity of the last iteration that ran
LastVisited == Drawables(scene)[idx - 1]
SlotUnresolved(own, dflt) == own \notin scene.tex_storage /\ dflt \notin scene.tex_storage
Unresolved(e) ==
  LET mat == Unwrap(scene.material[e])
  IN \/ SlotUnresolved(mat.albedo, scene.material_defaults.albedo)
     \/ SlotUnresolved(mat.emission, scene.material_defaults.emission)

\* C11: an entity that passed the attribute check aborts the pass exactly when
\* its albedo or its emission is loaded neither as its own texture nor as the
\* default; the aborting entity and the later ones get no draw call, and an
\* entity whose slots all resolve raises no error.
C11_FatalExactlyWhenUnresolved ==
  InFrame =>
    /\ \A e \in Entities :
         (Visited(e) /\ Eligible(e)) =>
           /\ Unresolved(e) <=> (pc = "panicked" /\ e = LastVisited)
           /\ Unresolved(e) => DrawsOf(e) = {}
           /\ ~Unresolved(e) => Cardinality(DrawsOf(e)) = 1
    /\ pc = "panicked" =>
         /\ Eligible(LastVisited)
         /\ \A e \in Entities : e >= LastVisited => DrawsOf(e) = {}

\* an entity drawn with the default albedo, then an abort on an entity whose
\* albedo is loaded but whose emission is loaded nowhere
C11_Witness ==
  /\ pc = "panicked"
  /\ Unwrap(scene.material[LastVisited]).albedo \in scene.tex_storage
  /\ \E i \in DrawIdx :
       Unwrap(scene.material[log[i].entity]).albedo \notin scene.tex_storage

UploadsOf(e) ==
  {j \in 1 .. Len(log) :
     log[j].entity = e /\ log[j].op \in {"update_constant_buffer", "update_buffer"}}
BindsOf(e) ==
  {j \in 1 .. Len(log) :
     log[j].entity = e /\ log[j].op \in {"push_vertex_buf", "push_texture", "push_sampler"}}

\* C12: for every drawn entity the commands of its processing come in the
\* order upload, bind, draw, clear: every constant-buffer upload precedes
\* every binding, every binding precedes the draw, and the clear follows the
\* draw directly, before any command of another entity.
C12_UploadBindDrawClear ==
  \A i \in DrawIdx :
    LET e == log[i].entity
    IN /\ \A u \in UploadsOf(e) : \A b \in BindsOf(e) : u < b
       /\ \A u \in UploadsOf(e) : u < i
       /\ \A b \in BindsOf(e) : b < i
       /\ i + 1 <= Len(log)
       /\ log[i + 1].op = "clear"
       /\ log[i + 1].entity = e

DeclaredConstBufs == {pso.const_bufs[k] : k \in 1 .. Len(pso.const_bufs)}

\* C13: the layout compile declares depends on the skinning flag only: vertex
\* buffers position, normal, texcoord, then joint ids and joint weights iff
\* skinning; constant buffers VertexArgs (1), FragmentArgs (1), PointLights
\* (128), DirectionalLights (16) and JointTransforms (100) iff skinning;
\* globals ambient_color, camera_position; textures emission, albedo; one
\* output with less-equal depth test and depth write.  DrawShaded declares a
\* single vertex buffer and otherwise the same as the non-skinned separate pass.
C13_DeclaredLayout ==
  pc # "new" =>
    /\ pso.vertex_bufs =
         (IF pass = "interleaved" THEN << "PosNormTex" >>
          ELSE IF skinning
            THEN << "Position", "Normal", "TexCoord", "JointIds", "JointWeights" >>
            ELSE << "Position", "Normal", "TexCoord" >>)
    /\ Len(pso.const_bufs) = Cardinality(DeclaredConstBufs)
    /\ DeclaredConstBufs =
         {[name |-> "VertexArgs", cap |-> 1], [name |-> "FragmentArgs", cap |-> 1],
          [name |-> "PointLights", cap |-> 128], [name |-> "DirectionalLights", cap |-> 16]}
         \cup (IF pass = "separate" /\ skinning
                 THEN {[name |-> "JointTransforms", cap |-> 100]} ELSE {})
    /\ pso.globals = << "ambient_color", "camera_position" >>
    /\ pso.textures = << "emission", "albedo" >>
    /\ pso.outputs = << [name |-> "out_color", depth |-> "LessEqualWrite"] >>

\* a compiled skinned pass that has drawn
C13_Witness ==
  /\ pass = "separate"
  /\ skinning
  /\ pc = "returned"
  /\ DrawIdx # {}
  /\ Len(pso.vertex_bufs) = 5

\* a camera is selected and its transform is singular
SelectedSingular == CameraEntities # {} /\ Unwrap(scene.global[SelectedEntity]).s = 0

\* C14 as stated: a frame whose selected camera has a singular transform ends
\* in a fatal error without a draw call, in every scene, also one without a
\* drawable entity or with skipped entities only; a frame with an invertible
\* selected camera, or without camera, does not fail.
C14_SingularCameraAlwaysAborts ==
  pc \in {"returned", "panicked"} =>
    /\ SelectedSingular => (pc = "panicked" /\ DrawIdx = {})
    /\ ~SelectedSingular => pc = "returned"

\* C14 amended: a frame whose selected camera has a singular transform issues
\* no draw call and aborts when it reaches the first entity that passes the
\* mesh and attribute checks; without such an entity it returns without
\* error.  A frame with an invertible selected camera, or without camera,
\* does not fail.
C14_SingularCameraAbortsAtFirstEligible ==
  InFrame =>
    /\ SelectedSingular =>
         /\ DrawIdx = {}
         /\ pc = "panicked" <=> (\E e \in Entities : Visited(e) /\ Eligible(e))
         /\ pc = "panicked" => Eligible(LastVisited)
         /\ pc = "returned" => ~(\E e \in Entities : Eligible(e))
    /\ ~SelectedSingular => pc # "panicked"

\* an abort on a singular camera after an entity was skipped
C14_Witness ==
  /\ pc = "panicked"
  /\ SelectedSingular
  /\ \E e \in Entities : Visited(e) /\ ~Eligible(e)

SetupNames == {"ambient_color", "camera_position", "FragmentArgs", "PointLights",
               "DirectionalLights"}
WritesOf(name) == {i \in 1 .. Len(log) : log[i].name = name}
VertexArgsUploadsOf(e) == {i \in VertexArgsIdx : log[i].entity = e}

\* C15: in every frame the globals ambient_color and camera_position and the
\* buffers FragmentArgs, PointLights, DirectionalLights are written exactly
\* once, before any VertexArgs upload, binding or draw; VertexArgs is uploaded
\* exactly once for each drawn entity and never for a skipped one.
C15_SetupBeforeEntities ==
  InFrame =>
    /\ \A name \in SetupNames :
         /\ Cardinality(WritesOf(name)) = 1
         /\ \A i \in WritesOf(name) :
              \A j \in 1 .. Len(log) : log[j].entity # 0 => i < j
    /\ \A e \in Entities :
         /\ DrawsOf(e) # {} => Cardinality(VertexArgsUploadsOf(e)) = 1
         /\ (Visited(e) /\ ~Eligible(e)) => VertexArgsUploadsOf(e) = {}

\* a frame that skipped an unloaded mesh, skipped a mesh without a required
\* buffer and drew an entity
C15_Witness ==
  /\ pc = "returned"
  /\ \E e \in Entities : Visited(e) /\ ~MeshLoaded(e)
  /\ \E e \in Entities : Visited(e) /\ LacksRequired(e)
  /\ DrawIdx # {}

IsDraw(ev) == ev.op = "draw"
IsVertexArgs(ev) == ev.op = "update_constant_buffer" /\ ev.name = "VertexArgs"
\* the draws of a frame: entity, textures and samplers of each, in order
DrawSequence(lg) ==
  LET d == SelectSeq(lg, IsDraw)
  IN [k \in 1 .. Len(d) |->
        [entity |-> d[k].entity, textures |-> d[k].arg.data.textures,
         samplers |-> d[k].arg.data.samplers, globals |-> d[k].arg.globals]]
\* every draw of the frame has bound the buffers of its own mesh only
OnlyOwnBuffers(lg) ==
  \A k \in 1 .. Len(lg) :
    lg[k].op = "draw" =>
      \A b \in 1 .. Len(lg[k].arg.data.vertex_bufs) :
        lg[k].arg.data.vertex_bufs[b].mesh = Unwrap(scene.mesh[lg[k].entity])
\* each loaded mesh is eligible in the interleaved layout exactly when it is
\* in the separate layout without skinning
SameEligibility ==
  \A e \in Entities :
    (Joined(e) /\ MeshLoaded(e)) =>
      (PosNormTex \in MeshAttrs(e) <=> {Position, Normal, TexCoord} \subseteq MeshAttrs(e))

\* C16: on the same scene, with the same eligibility of every mesh, DrawShaded
\* and the non-skinned DrawShadedSeparate end the frame the same way, with the
\* same Setup writes, the same VertexArgs uploads and the same draws with the
\* same textures, and at each draw each pass has bound only vertex buffers of
\* the entity being drawn.
C16_PassesEquivalent ==
  (pass = "interleaved" /\ frame = 1 /\ pc \in {"returned", "panicked"} /\ SameEligibility) =>
    LET other == apply("separate", FALSE, scene)
    IN /\ other.outcome = pc
       /\ SubSeq(other.st.log, 1, 5) = SubSeq(log, 1, 5)
       /\ SelectSeq(other.st.log, IsVertexArgs) = SelectSeq(log, IsVertexArgs)
       /\ DrawSequence(other.st.log) = DrawSequence(log)
       /\ OnlyOwnBuffers(log)
       /\ OnlyOwnBuffers(other.st.log)

\* the default textures cover every eligible entity and the selected camera,
\* if any, is invertible
Healthy ==
  /\ ~SelectedSingular
  /\ \A e \in Entities : Eligible(e) => ~Unresolved(e)
\* the visit of e ended in a draw followed by the clear, or in a skip
VisitEnded(e) ==
  IF Eligible(e)
    THEN /\ Cardinality(DrawsOf(e)) = 1
         /\ \A i \in DrawsOf(e) :
              i + 1 <= Len(log) /\ log[i + 1].op = "clear" /\ log[i + 1].entity = e
    ELSE DrawsOf(e) = {}

\* C17: with the textures resolvable and the selected camera invertible, a
\* frame that has entered the loop eventually returns, having advanced
\* through the drawable entities one at a time, each visit ending in draw and
\* clear or in a skip; no unloaded mesh or missing attribute aborts it.
C17_FrameTerminates ==
  /\ (pc = "loop" /\ Healthy) ~> (pc = "returned")
  /\ [](Healthy => pc # "panicked")
  /\ []((pc = "returned" /\ Healthy) =>
          /\ idx = Len(Drawables(scene)) + 1
          /\ \A e \in Entities : Joined(e) => (Visited(e) /\ VisitEnded(e)))
  /\ [][(pc = "loop" /\ pc' = "loop") => idx' = idx + 1]_vars

\* a second frame that returned after skipping an unloaded mesh and a mesh
\* without a required buffer
C17_Witness ==
  /\ pc = "returned"
  /\ frame = 2
  /\ Healthy
  /\ \E e \in Entities : Visited(e) /\ ~MeshLoaded(e)
  /\ \E e \in Entities : Visited(e) /\ LacksRequired(e)
  /\ \E e \in Entities : Visited(e) /\ Eligible(e)

\* the loop is at an entity whose mesh handle maps to no loaded mesh
AtUnloaded ==
  /\ pc = "loop"
  /\ idx <= Len(Drawables(scene))
  /\ ~MeshLoaded(Drawables(scene)[idx])

\* C18: the iteration of an entity whose mesh is not loaded changes nothing:
\* no command is issued (no draw, no upload, no texture lookup that could
\* fail), the bindings and buffers stay as they were and the loop moves on to
\* the next entity; the entities after it are drawn as usual.
C18_UnloadedSkipHasNoEffect ==
  /\ [][AtUnloaded =>
          /\ log' = log
          /\ data' = data
          /\ const_bufs' = const_bufs
          /\ globals' = globals
          /\ pc' = "loop"
          /\ idx' = idx + 1]_vars
  /\ [](pc = "returned" =>
          \A e \in Entities : Eligible(e) => Cardinality(DrawsOf(e)) = 1)

\* an unloaded mesh whose textures are loaded nowhere was passed and a later
\* entity was drawn
C18_Witness ==
  /\ pc = "returned"
  /\ \E e \in Entities :
       /\ Visited(e)
       /\ ~MeshLoaded(e)
       /\ Unresolved(e)
       /\ \E i \in DrawIdx : log[i].entity > e

\* C19: at every draw call of either pass exactly two textures and two
\* samplers are bound, emission first and albedo second, the order in which
\* compile declares the texture slots, whatever was drawn or skipped before.
C19_TwoTexturesInDeclaredOrder ==
  \A i \in DrawIdx :
    LET d == log[i].arg.data
    IN /\ Len(d.textures) = 2
       /\ Len(d.samplers) = 2
       /\ pso.textures = << "emission", "albedo" >>
       /\ \A k \in 1 .. 2 :
            /\ d.textures[k].view.slot = pso.textures[k]
            /\ d.samplers[k].sampler.slot = pso.textures[k]

\* a draw of the second frame of the separate pass that follows a skip for a
\* missing buffer
C19_Witness ==
  /\ pass = "separate"
  /\ frame = 2
  /\ \E e \in Entities : Visited(e) /\ LacksRequired(e) /\ \E i \in DrawIdx : log[i].entity > e
====
